---------------------------- MODULE Spec2Model ----------------------------
(* Model of scripts/check_migration_rollbacks.py: the migration rollback   *)
(* linter.  main() is a single linear pass over backend/migrations; the    *)
(* state is the filesystem it looks at, the host platform (pathlib picks   *)
(* the path flavour from it), main()'s locals and the two output streams.  *)
EXTENDS Naturals, Sequences, FiniteSets, TLC

VARIABLES
    platform,    \* "posix" or "windows": selects pathlib's path flavour
    fs,          \* the filesystem below REPO_ROOT
    invocation,  \* "first" or "second" run of the script on this filesystem
    prev,        \* what the first run ended with (compared by the second)
    pc,          \* position in main()
    failures,    \* main()'s failures list
    queue,       \* sorted(MIGRATIONS_DIR.glob("*.sql"))
    i,           \* index in queue of the path the for loop is at
    j,           \* index in failures of the report loop
    out,         \* lines written, in order, each with its stream
    ret,         \* <<>> until main() returns, then <<code>>
    reads,       \* relative paths whose content was read, in order
    globbed      \* whether the directory has been enumerated in this run

vars == <<platform, fs, invocation, prev, pc, failures, queue, i, j, out,
          ret, reads, globbed>>

(***************************************************************************)
(* Bound of the model: the number of entries directly under the           *)
(* migrations directory.                                                   *)
(***************************************************************************)
MaxFiles == 3

(***************************************************************************)
(* Characters.  Python compares str by code point; the printable ASCII     *)
(* range 32..126 (without the backquote, 96) is enough for every name and   *)
(* content drawn below.                                                    *)
(***************************************************************************)
AsciiLow == " !\"#$%&'()*+,-./0123456789:;<=>?@ABCDEFGHIJKLMNOPQRSTUVWXYZ[\\]^_"

AsciiHigh == "abcdefghijklmnopqrstuvwxyz{|}~"

\* chr(): AsciiLow holds the codes 32..95, AsciiHigh the codes 97..126.
Codes == (32..95) \cup (97..126)

Chr == [n \in Codes |-> IF n <= 95 THEN SubSeq(AsciiLow, n - 31, n - 31)
                                   ELSE SubSeq(AsciiHigh, n - 96, n - 96)]

\* ord(): the inverse of chr().
Ord == [c \in {Chr[n] : n \in Codes} |-> CHOOSE n \in Codes : Chr[n] = c]

Min(a, b) == IF a < b THEN a ELSE b

\* str.__lt__: lexicographic by code point, a proper prefix sorts first.
StrLess(s, t) ==
    \/ \E k \in 1..Min(Len(s), Len(t)) :
          /\ SubSeq(s, 1, k - 1) = SubSeq(t, 1, k - 1)
          /\ Ord[SubSeq(s, k, k)] < Ord[SubSeq(t, k, k)]
    \/ /\ Len(s) < Len(t)
       /\ SubSeq(t, 1, Len(s)) = s

\* list.__lt__ on lists of str (pathlib compares the lists of parts).
PartsLess(p, q) ==
    \/ \E k \in 1..Min(Len(p), Len(q)) :
          /\ SubSeq(p, 1, k - 1) = SubSeq(q, 1, k - 1)
          /\ StrLess(p[k], q[k])
    \/ /\ Len(p) < Len(q)
       /\ SubSeq(q, 1, Len(p)) = p

\* str.lower() on ASCII.
RECURSIVE Lower(_)
Lower(s) ==
    IF s = "" THEN ""
    ELSE LET c == SubSeq(s, 1, 1)
             n == Ord[c]
         IN  (IF n >= 65 /\ n <= 90 THEN Chr[n + 32] ELSE c)
                 \o Lower(SubSeq(s, 2, Len(s)))

\* The names the model draws for the entries of the migrations directory
\* (see Init), and every string that is a part of a path or of a pattern.
Names == {"1 - init.sql", "B.sql", "a.sql", "c.sql", "notes.txt"}

PathStrings == Names \cup {"repo", "backend", "migrations", ".sql"}

\* Lower, tabulated once over the strings it is applied to.
Lowered == [s \in PathStrings |-> Lower(s)]

\* The case folding of the flavour: posixpath keeps the string, ntpath lowers it.
NormCase(s) == IF platform = "windows" THEN Lowered[s] ELSE s

Sep == IF platform = "windows" THEN "\\" ELSE "/"

RECURSIVE Join(_, _)
Join(parts, sep) ==
    IF parts = <<>> THEN ""
    ELSE IF Len(parts) = 1 THEN parts[1]
    ELSE parts[1] \o sep \o Join(Tail(parts), sep)

(***************************************************************************)
(* Module constants of the script.  A path is its sequence of parts; the   *)
(* location of the checkout is abstracted to the single part "repo".       *)
(***************************************************************************)
REPO_ROOT == <<"repo">>

MIGRATIONS_DIR == REPO_ROOT \o <<"backend", "migrations">>

ALLOWLIST == {
    "backend/migrations/1 - init.sql",
    "backend/migrations/2025_05_09_create_early_access.sql",
    "backend/migrations/2025_05_11_create_signup.sql",
    "backend/migrations/2025_05_15_add_user_roles_columns_types.sql",
    "backend/migrations/2025_05_23_add_oauth_type_to_users.sql",
    "backend/migrations/2025_10_04_1_create_workflow.sql",
    "backend/migrations/2025_10_04_2_create_updated_at_trigger.sql",
    "backend/migrations/2025_10_07_1_create_workflow_logs.sql",
    "backend/migrations/2025_10_07_2_unique_workflow_name.sql",
    "backend/migrations/2025_10_07_3_create_workflow_runs.sql",
    "backend/migrations/2025_10_07_4_create_workflow_node_runs.sql",
    "backend/migrations/2025_10_07_5_add_webhook_salt.sql",
    "backend/migrations/2025_10_08_1_alter_workflows_add_concurrency.sql",
    "backend/migrations/2025_5_12_add_is_verified.sql",
    "backend/migrations/2025_5_12_create_email_verification_tokens.sql",
    "backend/migrations/2025_5_13_add_used_at_email_verification_tokens.sql",
    "backend/migrations/2025_5_16_add_reset_password_token_fields.sql",
    "backend/migrations/2025_9_15_add_used_at_password_reset.sql",
    "backend/migrations/2025_9_16_add_oauth_enum_email.sql" }

MARKER == "-- Rollback:"

GLOB_PATTERN == "*.sql"

(***************************************************************************)
(* pathlib and file operations the script calls.                           *)
(***************************************************************************)
\* PurePath._cparts: the case-folded parts pathlib compares paths by.
CaseFoldedParts(p) == [k \in 1..Len(p) |-> NormCase(p[k])]

\* PurePath.__lt__
PathLess(p, q) == PartsLess(CaseFoldedParts(p), CaseFoldedParts(q))

\* sorted(): stable, so an element goes after the ones it does not precede.
RECURSIVE Insert(_, _)
Insert(sorted, p) ==
    IF sorted = <<>> THEN <<p>>
    ELSE IF PathLess(p, Head(sorted)) THEN <<p>> \o sorted
    ELSE <<Head(sorted)>> \o Insert(Tail(sorted), p)

RECURSIVE Sorted(_)
Sorted(paths) ==
    IF paths = <<>> THEN <<>>
    ELSE Insert(Sorted(SubSeq(paths, 1, Len(paths) - 1)), paths[Len(paths)])

\* path.relative_to(root): the parts after root's.
RelativeTo(path, root) == SubSeq(path, Len(root) + 1, Len(path))

\* PurePath.as_posix(): the parts joined by forward slashes.
AsPosix(parts) == Join(parts, "/")

RelPath(path) == AsPosix(RelativeTo(path, REPO_ROOT))

\* str(path), as the f-string of the missing-directory message formats it.
PathStr(path) == Join(path, Sep)

\* fnmatch of a name against "*<suffix>", case-folded by the flavour.
Matches(name, pattern) ==
    LET suffix == NormCase(SubSeq(pattern, 2, Len(pattern)))
        folded == NormCase(name)
    IN  /\ Len(folded) >= Len(suffix)
        /\ SubSeq(folded, Len(folded) - Len(suffix) + 1, Len(folded)) = suffix

\* Path.exists(): the checkout is there; backend/migrations may be missing.
Exists(path) ==
    \/ path = REPO_ROOT
    \/ /\ path = MIGRATIONS_DIR
       /\ fs.mdir # "absent"

\* os.scandir() of the migrations directory: its names, in an order the
\* filesystem chooses.
Perms(S) ==
    {o \in [1..Cardinality(S) -> S] : \A a, b \in DOMAIN o : a # b => o[a] # o[b]}

Listings == IF fs.mdir = "dir" THEN Perms(DOMAIN fs.entries) ELSE {<<>>}

\* Path.rglob(pattern): the one-level matches, then those of each subdirectory.
GlobRecursive(dir, pattern, listing) ==
    LET direct == SelectSeq([k \in 1..Len(listing) |-> dir \o <<listing[k]>>],
                            LAMBDA p : Matches(p[Len(p)], pattern))
        dirs   == SelectSeq(listing, LAMBDA n : fs.entries[n].kind = "dir")
        RECURSIVE Nested(_)
        Nested(ds) ==
            IF ds = <<>> THEN <<>>
            ELSE LET d == Head(ds)
                     names == fs.entries[d].children
                 IN  SelectSeq([k \in 1..Len(names) |-> dir \o <<d, names[k].name>>],
                               LAMBDA p : Matches(p[Len(p)], pattern))
                         \o Nested(Tail(ds))
    IN  direct \o Nested(dirs)

\* Path.glob(pattern) with a one-level pattern: the entries directly under
\* dir whose name matches, files and directories alike, in the order the
\* filesystem lists them (nothing is listed when dir is not a directory).
Glob(dir, pattern, listing) ==
    SelectSeq([k \in 1..Len(listing) |-> dir \o <<listing[k]>>],
              LAMBDA p : Matches(p[Len(p)], pattern))

\* The directory entry a globbed path names.
EntryAt(path) ==
    LET rel == RelativeTo(path, MIGRATIONS_DIR)
    IN  IF Len(rel) = 1 THEN fs.entries[rel[1]]
        ELSE LET names == fs.entries[rel[1]].children
                 k == CHOOSE k \in 1..Len(names) : names[k].name = rel[2]
             IN  names[k].entry

\* bytes.decode("utf-8") on the bytes the model draws: ASCII bytes decode to
\* the character of the same code, 0xFF is valid nowhere in UTF-8.
Decodable(bytes) == \A k \in 1..Len(bytes) : bytes[k] < 128

RECURSIVE Decode(_)
Decode(bytes) ==
    IF bytes = <<>> THEN "" ELSE Chr[Head(bytes)] \o Decode(Tail(bytes))

\* Path.read_text(encoding="utf-8") raises when the path cannot be opened
\* for reading (here: it is a directory) and when its bytes are not UTF-8.
ReadRaises(path) ==
    LET e == EntryAt(path)
    IN  \/ e.kind = "dir"
        \/ ~Decodable(e.bytes)

ReadText(path) == Decode(EntryAt(path).bytes)

\* `MARKER in text`
Contains(text, needle) ==
    \E k \in 1..(Len(text) + 1) :
        /\ k + Len(needle) - 1 <= Len(text)
        /\ SubSeq(text, k, k + Len(needle) - 1) = needle

(***************************************************************************)
(* The filesystems the model draws.  An entry of the migrations directory  *)
(* is a file (its bytes) or a directory (its own entries, which the        *)
(* one-level glob never reaches).  No two of Names differ in case only: a  *)
(* directory of a Windows filesystem cannot hold both.                     *)
(***************************************************************************)
\* str.encode() on ASCII text.
Encode(text) == [k \in 1..Len(text) |-> Ord[SubSeq(text, k, k)]]

File(bytes) == [kind |-> "file", bytes |-> bytes, children |-> <<>>]

Dir(children) == [kind |-> "dir", bytes |-> <<>>, children |-> children]

WithMarker == Encode("-- Rollback: drop x")

WrongCase == Encode("-- rollback: drop x")

NotUtf8 == Encode("-- Rollback:") \o <<255>>

Entries ==
    { File(WithMarker), File(WrongCase), File(<<>>), File(NotUtf8),
      Dir(<<[name |-> "c.sql", entry |-> File(WrongCase)]>>) }

\* The sets of names a migrations directory of kind m may hold.
Contents(m) ==
    IF m = "dir" THEN {T \in SUBSET Names : Cardinality(T) <= MaxFiles} ELSE {{}}

NoResult == [status |-> "none", ret |-> <<>>, out |-> <<>>, failures |-> <<>>]

Init ==
    /\ platform \in {"posix", "windows"}
    /\ \E m \in {"absent", "file", "dir"} :
          \E S \in Contents(m) :
              \E e \in [S -> Entries] :
                  fs = [mdir |-> m, entries |-> e]
    /\ invocation = "first"
    /\ prev = NoResult
    /\ pc = "start"
    /\ failures = <<>>
    /\ queue = <<>>
    /\ i = 1
    /\ j = 1
    /\ out = <<>>
    /\ ret = <<>>
    /\ reads = <<>>
    /\ globbed = FALSE

(***************************************************************************)
(* main()                                                                  *)
(***************************************************************************)
Line(stream, text) == [stream |-> stream, text |-> text]

\* Mutant of Enter: failures is not emptied on entry (a list kept at module
\* level, or a default argument, would behave so).
EnterKeepFailures ==
    /\ pc = "start"
    /\ pc' = "check"
    /\ UNCHANGED <<platform, fs, invocation, prev, failures, queue, i, j,
                   out, ret, reads, globbed>>

\* failures: list[str] = []
Enter ==
    /\ pc = "start"
    /\ failures' = <<>>
    /\ pc' = "check"
    /\ UNCHANGED <<platform, fs, invocation, prev, queue, i, j, out, ret,
                   reads, globbed>>

\* Mutant of DirMissing: the existence test is made on the wrong path.
RootMissing == ~Exists(REPO_ROOT)

\* not MIGRATIONS_DIR.exists()
DirMissing == ~Exists(MIGRATIONS_DIR)

\* if not MIGRATIONS_DIR.exists(): print(..., file=sys.stderr); return 1
MissingDirectory ==
    /\ pc = "check"
    /\ DirMissing
    /\ out' = Append(out, Line("stderr", "Missing migrations directory: "
                                             \o PathStr(MIGRATIONS_DIR)))
    /\ ret' = <<1>>
    /\ pc' = "done"
    /\ UNCHANGED <<platform, fs, invocation, prev, failures, queue, i, j,
                   reads, globbed>>

\* Mutant of GlobSql: rglob, which descends into the subdirectories.
GlobSqlRecursive(listing) == GlobRecursive(MIGRATIONS_DIR, GLOB_PATTERN, listing)

\* MIGRATIONS_DIR.glob("*.sql")
GlobSql(listing) == Glob(MIGRATIONS_DIR, GLOB_PATTERN, listing)

\* for path in sorted(MIGRATIONS_DIR.glob("*.sql")): the iterable is built
\* once, before the first iteration, from whatever order the directory is
\* listed in.
StartLoop ==
    /\ pc = "check"
    /\ ~DirMissing
    /\ \E listing \in Listings : queue' = Sorted(GlobSql(listing))
    /\ globbed' = TRUE
    /\ i' = 1
    /\ pc' = "loop"
    /\ UNCHANGED <<platform, fs, invocation, prev, failures, j, out, ret, reads>>

InLoop == pc = "loop" /\ i <= Len(queue)

\* rel_path in ALLOWLIST
Exempt(path) == RelPath(path) \in ALLOWLIST

\* Mutant of SkipExempt: the content is read before the allowlist is
\* consulted.
ReadThenSkip ==
    /\ InLoop
    /\ Exempt(queue[i])
    /\ reads' = Append(reads, RelPath(queue[i]))
    /\ IF ReadRaises(queue[i])
          THEN pc' = "aborted" /\ i' = i
          ELSE pc' = pc /\ i' = i + 1
    /\ UNCHANGED <<platform, fs, invocation, prev, failures, queue, j, out,
                   ret, globbed>>

\* if rel_path in ALLOWLIST: continue
SkipExempt ==
    /\ InLoop
    /\ Exempt(queue[i])
    /\ i' = i + 1
    /\ UNCHANGED <<platform, fs, invocation, prev, pc, failures, queue, j,
                   out, ret, reads, globbed>>

\* Mutant of ReadError: the exception is caught and the file is reported as
\* one more failure.
ReadErrorCaught ==
    /\ InLoop
    /\ ~Exempt(queue[i])
    /\ ReadRaises(queue[i])
    /\ reads' = Append(reads, RelPath(queue[i]))
    /\ failures' = Append(failures, RelPath(queue[i]))
    /\ i' = i + 1
    /\ UNCHANGED <<platform, fs, invocation, prev, pc, queue, j, out, ret,
                   globbed>>

\* path.read_text(encoding="utf-8") raises: nothing in main() catches it.
ReadError ==
    /\ InLoop
    /\ ~Exempt(queue[i])
    /\ ReadRaises(queue[i])
    /\ reads' = Append(reads, RelPath(queue[i]))
    /\ pc' = "aborted"
    /\ UNCHANGED <<platform, fs, invocation, prev, failures, queue, i, j,
                   out, ret, globbed>>

\* The marker is in the text: the condition of line 45 is false.
Documented ==
    /\ InLoop
    /\ ~Exempt(queue[i])
    /\ ~ReadRaises(queue[i])
    /\ Contains(ReadText(queue[i]), MARKER)
    /\ reads' = Append(reads, RelPath(queue[i]))
    /\ i' = i + 1
    /\ UNCHANGED <<platform, fs, invocation, prev, pc, failures, queue, j,
                   out, ret, globbed>>

\* Mutant of Undocumented: the scan stops at the first violation.
UndocumentedBreak ==
    /\ InLoop
    /\ ~Exempt(queue[i])
    /\ ~ReadRaises(queue[i])
    /\ ~Contains(ReadText(queue[i]), MARKER)
    /\ reads' = Append(reads, RelPath(queue[i]))
    /\ failures' = Append(failures, RelPath(queue[i]))
    /\ i' = Len(queue) + 1
    /\ UNCHANGED <<platform, fs, invocation, prev, pc, queue, j, out, ret,
                   globbed>>

\* Mutant of Undocumented: a rollback stub is written into the offending
\* file.
UndocumentedStub ==
    /\ InLoop
    /\ ~Exempt(queue[i])
    /\ ~ReadRaises(queue[i])
    /\ ~Contains(ReadText(queue[i]), MARKER)
    /\ reads' = Append(reads, RelPath(queue[i]))
    /\ failures' = Append(failures, RelPath(queue[i]))
    /\ fs' = [fs EXCEPT !.entries[queue[i][Len(queue[i])]].bytes = @ \o Encode(MARKER)]
    /\ i' = i + 1
    /\ UNCHANGED <<platform, invocation, prev, pc, queue, j, out, ret, globbed>>

\* if "-- Rollback:" not in path.read_text(...): failures.append(rel_path)
Undocumented ==
    /\ InLoop
    /\ ~Exempt(queue[i])
    /\ ~ReadRaises(queue[i])
    /\ ~Contains(ReadText(queue[i]), MARKER)
    /\ reads' = Append(reads, RelPath(queue[i]))
    /\ failures' = Append(failures, RelPath(queue[i]))
    /\ i' = i + 1
    /\ UNCHANGED <<platform, fs, invocation, prev, pc, queue, j, out, ret,
                   globbed>>

LoopDone == pc = "loop" /\ i > Len(queue)

\* Mutant of AnyFailures: a single failure is not enough.
ManyFailures == Len(failures) > 1

\* if failures:
AnyFailures == failures # <<>>

\* print("The following migrations are missing ...")
PrintHeader ==
    /\ LoopDone
    /\ AnyFailures
    /\ out' = Append(out, Line("stdout",
           "The following migrations are missing a '" \o MARKER
               \o "' guidance block:"))
    /\ j' = 1
    /\ pc' = "lines"
    /\ UNCHANGED <<platform, fs, invocation, prev, failures, queue, i, ret,
                   reads, globbed>>

\* for failure in failures: print(f"  - {failure}")
PrintFailure ==
    /\ pc = "lines"
    /\ j <= Len(failures)
    /\ out' = Append(out, Line("stdout", "  - " \o failures[j]))
    /\ j' = j + 1
    /\ UNCHANGED <<platform, fs, invocation, prev, pc, failures, queue, i,
                   ret, reads, globbed>>

\* Mutant of PrintClosing: file=sys.stderr is forgotten.
PrintClosingStdout ==
    /\ pc = "lines"
    /\ j > Len(failures)
    /\ out' = Append(out, Line("stdout",
           "Add rollback notes or update the allowlist once legacy files are documented."))
    /\ ret' = <<1>>
    /\ pc' = "done"
    /\ UNCHANGED <<platform, fs, invocation, prev, failures, queue, i, j,
                   reads, globbed>>

\* print("Add rollback notes ...", file=sys.stderr); return 1
PrintClosing ==
    /\ pc = "lines"
    /\ j > Len(failures)
    /\ out' = Append(out, Line("stderr",
           "Add rollback notes or update the allowlist once legacy files are documented."))
    /\ ret' = <<1>>
    /\ pc' = "done"
    /\ UNCHANGED <<platform, fs, invocation, prev, failures, queue, i, j,
                   reads, globbed>>

\* return 0
ReturnZero ==
    /\ LoopDone
    /\ ~AnyFailures
    /\ ret' = <<0>>
    /\ pc' = "done"
    /\ UNCHANGED <<platform, fs, invocation, prev, failures, queue, i, j,
                   out, reads, globbed>>

Ended == pc \in {"done", "aborted"}

\* sys.exit(main()) has ended the process; the script is started again on
\* the same filesystem.  Nothing of the first process is kept but prev, the
\* record the second run is compared with.
Rerun ==
    /\ Ended
    /\ invocation = "first"
    /\ invocation' = "second"
    /\ prev' = [status |-> pc, ret |-> ret, out |-> out, failures |-> failures]
    /\ pc' = "start"
    /\ queue' = <<>>
    /\ i' = 1
    /\ j' = 1
    /\ out' = <<>>
    /\ ret' = <<>>
    /\ reads' = <<>>
    /\ globbed' = FALSE
    /\ UNCHANGED <<platform, fs, failures>>

Next ==
    \/ Enter
    \/ MissingDirectory
    \/ StartLoop
    \/ SkipExempt
    \/ ReadError
    \/ Documented
    \/ Undocumented
    \/ PrintHeader
    \/ PrintFailure
    \/ PrintClosing
    \/ ReturnZero
    \/ Rerun

Spec == Init /\ [][Next]_vars

(***************************************************************************)
(* What the specification says of a directory, stated on the filesystem    *)
(* alone (never on main()'s locals).                                       *)
(***************************************************************************)
Range(seq) == {seq[k] : k \in 1..Len(seq)}

NoDuplicates(seq) == \A a, b \in 1..Len(seq) : a # b => seq[a] # seq[b]

\* The entries directly under the migrations directory named *.sql.
SqlNames == {n \in DOMAIN fs.entries : Matches(n, "*.sql")}

\* The repo-relative forward-slash path of a direct entry.
RelOf(n) == "backend/migrations/" \o n

IsExempt(n) == RelOf(n) \in ALLOWLIST

IsReadable(n) == fs.entries[n].kind = "file" /\ Decodable(fs.entries[n].bytes)

HasMarker(n) == IsReadable(n) /\ Contains(Decode(fs.entries[n].bytes), "-- Rollback:")

LacksMarker(n) == IsReadable(n) /\ ~Contains(Decode(fs.entries[n].bytes), "-- Rollback:")

Offenders == {RelOf(n) : n \in {m \in SqlNames : ~IsExempt(m) /\ LacksMarker(m)}}

Blockers == {n \in SqlNames : ~IsExempt(n) /\ ~IsReadable(n)}

PassFinished == globbed /\ pc # "aborted" /\ i > Len(queue)

(***************************************************************************)
(* C1: when the migrations directory exists and every entry the *.sql      *)
(* pattern selects is readable, main() returns, and it returns 0 exactly   *)
(* when every non-exempt .sql file contains the marker, 1 otherwise; a     *)
(* directory with no .sql file or with only exempt ones gives 0.           *)
(***************************************************************************)
C1_ExitCode ==
    (Ended /\ fs.mdir = "dir" /\ \A n \in SqlNames : IsReadable(n)) =>
        /\ pc = "done"
        /\ ret = IF \A n \in SqlNames : IsExempt(n) \/ HasMarker(n)
                 THEN <<0>> ELSE <<1>>

C1_Witness ==
    /\ pc = "done"
    /\ ret = <<0>>
    /\ \A n \in SqlNames : IsReadable(n)
    /\ \E n \in SqlNames : IsExempt(n) /\ LacksMarker(n)
    /\ \E n \in SqlNames : ~IsExempt(n) /\ HasMarker(n)

(***************************************************************************)
(* C2: a file whose relative path is in the exemption set is never put on  *)
(* the failure list and never read, whatever its content; so a run aborts  *)
(* or fails only because of a non-exempt entry.                            *)
(***************************************************************************)
C2_ExemptNeverInspected ==
    /\ \A p \in ALLOWLIST : p \notin Range(failures) /\ p \notin Range(reads)
    /\ pc = "aborted" => Blockers # {}
    /\ (fs.mdir = "dir" /\ ret = <<1>>) => Offenders # {}

C2_Witness ==
    /\ pc = "done"
    /\ ret = <<0>>
    /\ reads # <<>>
    /\ \E n \in SqlNames :
          IsExempt(n) /\ fs.entries[n].kind = "file" /\ ~IsReadable(n)

(***************************************************************************)
(* C3: violations are accumulated: once the pass is finished the failure   *)
(* list holds exactly the non-exempt .sql files that lack the marker, each *)
(* once, every non-exempt .sql file has been read, and no exit code is set *)
(* before the last file has been inspected.                                *)
(***************************************************************************)
C3_FailuresAccumulated ==
    /\ PassFinished =>
          /\ Range(failures) = Offenders
          /\ NoDuplicates(failures)
          /\ Range(reads) = {RelOf(n) : n \in {m \in SqlNames : ~IsExempt(m)}}
    /\ (ret # <<>> /\ fs.mdir # "absent") => PassFinished

C3_Witness ==
    /\ pc = "done"
    /\ Len(queue) = 3
    /\ failures # <<>>
    /\ failures[1] = RelPath(queue[1])
    /\ RelPath(queue[3]) \in Range(reads)

(***************************************************************************)
(* C4: the failure list, and so the reported lines, are in the             *)
(* lexicographic string order of the repo-relative paths, whatever the     *)
(* order in which the filesystem lists the directory.                      *)
(***************************************************************************)
C4_FailuresInStringOrder ==
    \A a, b \in 1..Len(failures) : a < b => StrLess(failures[a], failures[b])

\* The same statement on a POSIX host, where the parts are compared as they
\* are: there it holds.
C4_PosixInStringOrder == platform = "posix" => C4_FailuresInStringOrder

(***************************************************************************)
(* C5: when the migrations directory does not exist main() returns 1 at    *)
(* once: one line naming the expected path on standard error, nothing on   *)
(* standard output, no enumeration, no read, no failure.  Only existence   *)
(* is tested: a path that exists and is not a directory passes the test.   *)
(***************************************************************************)
C5_MissingDirectory ==
    /\ fs.mdir = "absent" =>
          /\ ~globbed /\ reads = <<>> /\ failures = <<>>
          /\ pc \in {"start", "check", "done"}
          /\ pc = "done" =>
                /\ ret = <<1>>
                /\ out = << [stream |-> "stderr",
                             text |-> "Missing migrations directory: "
                                 \o (IF platform = "windows"
                                     THEN "repo\\backend\\migrations"
                                     ELSE "repo/backend/migrations")] >>
    /\ (fs.mdir = "file" /\ pc = "done") => (globbed /\ ret = <<0>> /\ out = <<>>)

C5_Witness == fs.mdir = "absent" /\ pc = "done" /\ invocation = "first"

(***************************************************************************)
(* C6: the second of two runs on an unchanged directory ends as the first  *)
(* did: same exit code (or the same abort), same reported lines, same      *)
(* failure list in the same order.                                         *)
(***************************************************************************)
C6_Idempotent ==
    (invocation = "second" /\ Ended) =>
        /\ pc = prev.status
        /\ ret = prev.ret
        /\ out = prev.out
        /\ failures = prev.failures

C6_Witness ==
    /\ invocation = "second"
    /\ pc = "done"
    /\ Len(failures) = 2
    /\ Len(out) = 4

(***************************************************************************)
(* C7: when undocumented migrations are found, standard output gets the    *)
(* header and then one indented line per failure, in the order of the      *)
(* failure list, and after them standard error gets the one closing line;  *)
(* a run that finds no violation writes none of these lines.               *)
(***************************************************************************)
C7_Report ==
    /\ (pc = "done" /\ failures # <<>>) =>
          out = << [stream |-> "stdout",
                    text |-> "The following migrations are missing a '-- Rollback:' guidance block:"] >>
                \o [k \in 1..Len(failures) |->
                       [stream |-> "stdout", text |-> "  - " \o failures[k]]]
                \o << [stream |-> "stderr",
                       text |-> "Add rollback notes or update the allowlist once legacy files are documented."] >>
    /\ (pc = "done" /\ failures = <<>> /\ fs.mdir # "absent") => out = <<>>
    /\ pc \in {"loop", "aborted"} => out = <<>>

C7_Witness ==
    /\ pc = "done"
    /\ Len(failures) = 2
    /\ Len(out) = 4
    /\ invocation = "first"

(***************************************************************************)
(* C8: the run only reads the filesystem: no step of main() changes the    *)
(* set of files or the content of one, and every line it writes goes to    *)
(* standard output or standard error.                                      *)
(***************************************************************************)
C8_ReadOnly ==
    [][ /\ fs' = fs
        /\ \A k \in 1..Len(out') : out'[k].stream \in {"stdout", "stderr"} ]_vars

C8_Witness ==
    /\ pc = "done"
    /\ Len(reads) = 3
    /\ out # <<>>

(***************************************************************************)
(* C9: a non-exempt entry that cannot be read or decoded stops the run at  *)
(* that entry: it is never put on the failure list, main() never returns,  *)
(* nothing sorted after it is inspected, and nothing is reported, not even *)
(* the violations found before it.                                         *)
(***************************************************************************)
C9_ReadErrorAborts ==
    /\ \A k \in 1..Len(queue) :
          (~(RelPath(queue[k]) \in ALLOWLIST) /\ ReadRaises(queue[k])) =>
              /\ RelPath(queue[k]) \notin Range(failures)
              /\ i <= k
              /\ \A m \in (k + 1)..Len(queue) : RelPath(queue[m]) \notin Range(reads)
              /\ ret = <<>>
              /\ out = <<>>
              /\ pc \in {"loop", "aborted"}
    /\ pc = "aborted" =>
          /\ ~(RelPath(queue[i]) \in ALLOWLIST)
          /\ ReadRaises(queue[i])
    /\ (globbed /\ Blockers # {}) => (ret = <<>> /\ out = <<>>)

C9_Witness ==
    /\ pc = "aborted"
    /\ i = 2
    /\ Len(queue) = 3
    /\ failures # <<>>
    /\ ~(RelPath(queue[3]) \in ALLOWLIST)

(***************************************************************************)
(* C10: the entries inspected are exactly those directly under the         *)
(* migrations directory whose name matches *.sql (a directory of such a    *)
(* name included); an entry of another extension and a .sql file inside a  *)
(* subdirectory are never read, never listed, and never change the exit    *)
(* code.                                                                   *)
(***************************************************************************)
C10_OnlyDirectSqlEntries ==
    LET sql == SqlNames
    IN  /\ globbed =>
              /\ Range(queue) = {<<"repo", "backend", "migrations", n>> : n \in sql}
              /\ Len(queue) = Cardinality(sql)
        /\ \A p \in Range(reads) \cup Range(failures) :
              \E n \in sql : p = RelOf(n)
        /\ (fs.mdir = "dir" /\ pc = "done") =>
              /\ ret = IF Offenders = {} THEN <<0>> ELSE <<1>>
              /\ Blockers = {}

C10_Witness ==
    /\ pc = "done"
    /\ ret = <<0>>
    /\ reads # <<>>
    /\ "notes.txt" \in DOMAIN fs.entries
    /\ fs.entries["notes.txt"].kind = "dir"

=============================================================================
